---- MODULE Spec2Model ----
(***************************************************************************)
(* Model of the task tracker command line (src/task_cli.py).               *)
(*                                                                         *)
(* One action is one invocation of one command, run to completion:        *)
(* load_tasks, the mutation, save_tasks and the messages it echoes.  The  *)
(* commands run one after the other; prompt ends one and clears its        *)
(* output before the next.                                                 *)
(* Strings are sequences of one-character strings, so that whitespace      *)
(* normalisation and the line structure of the output are computed and not *)
(* assumed.  Timestamps are readings of the wall clock, modelled as        *)
(* naturals: isoformat() of a later reading compares greater or equal.     *)
(* The wall clock is assumed not to be set back between two readings.      *)
(*                                                                         *)
(* Spec runs the commands one after the other from a store without tasks;  *)
(* SpecAnyStore also from a file that does not parse; SpecStrings and      *)
(* SpecLimit give add every short string and strings around the greatest   *)
(* length.  SpecConc and SpecTorn follow two invocations that run at the   *)
(* same time, a step being a load or a save (SpecConc), or a load, the     *)
(* opening of the file for writing, or the writing (SpecTorn).             *)
(***************************************************************************)
EXTENDS Integers, Sequences, FiniteSets, TLC

VARIABLES
    TASKS_FILE,   \* the store: [kind, tasks]
    clock,        \* the last reading of datetime.now()
    result,       \* what the last invocation gave back: exit code, stdout, stderr
    issued,       \* history: the ids that successful adds have reported so far
    procs         \* the invocations that run at the same time, each between
                  \* its load and its save: [pc, cmd, ..., loaded, tasks]

vars == <<TASKS_FILE, clock, result, issued, procs>>

\* ---------------------------------------------------------------- bounds
MaxId == 2        \* an add is not started once the id it would assign exceeds this
MaxClock == 1     \* readings of the clock are 0..MaxClock

\* ------------------------------------------------------ program constants
MAX_DESCRIPTION_LENGTH == 500

\* ----------------------------------------------------------------- strings
Whitespace == {" ", "\n"}

\* The descriptions given on the command line: one of whitespace only, one
\* already normal, one with leading, inner and trailing runs of mixed
\* whitespace.
Descriptions ==
    { <<" ", "\n">>,
      <<"a">>,
      <<" ", "a", " ", "\n", "a", "\n">> }

TaskIds == 1..MaxId

Statuses == {"todo", "in-progress", "done"}
StatusChoices == {"all", "done", "todo", "in-progress"}

\* str.split() without arguments: the maximal runs of non-whitespace, in order.
\* Computed by halves (a word that spans the middle is put back together), so
\* that the depth of the evaluation stays logarithmic in the length.
RECURSIVE split(_)
split(s) ==
    IF Len(s) = 0 THEN <<>>
    ELSE IF Len(s) = 1 THEN (IF s[1] \in Whitespace THEN <<>> ELSE <<s>>)
    ELSE LET m == Len(s) \div 2
             L == split(SubSeq(s, 1, m))
             R == split(SubSeq(s, m + 1, Len(s)))
         IN  IF s[m] \notin Whitespace /\ s[m + 1] \notin Whitespace
             THEN SubSeq(L, 1, Len(L) - 1) \o <<L[Len(L)] \o R[1]>> \o Tail(R)
             ELSE L \o R

\* sep.join(words)
RECURSIVE join(_, _)
join(sep, words) ==
    IF words = <<>> THEN <<>>
    ELSE IF Len(words) = 1 THEN words[1]
    ELSE words[1] \o sep \o join(sep, Tail(words))

\* Mutant of normalize: description.replace('  ', ' '), every pair of spaces
\* met from the left becoming one space.
RECURSIVE replace_pairs(_)
replace_pairs(s) ==
    IF Len(s) < 2 THEN s
    ELSE IF s[1] = " " /\ s[2] = " "
    THEN <<" ">> \o replace_pairs(SubSeq(s, 3, Len(s)))
    ELSE <<s[1]>> \o replace_pairs(Tail(s))

normalize_by_pairs(description) == replace_pairs(description)

\* Line 130: ' '.join(description.split())
normalize(description) == join(<<" ">>, split(description))

\* Mutant of validate_description: a description of exactly the greatest
\* length is taken as too long.
validate_description_inclusive(description) ==
    LET normalized == normalize(description)
    IN  IF normalized = <<>>
        THEN [ok |-> FALSE, value |-> <<>>, error |-> "Task description cannot be empty"]
        ELSE IF Len(normalized) >= MAX_DESCRIPTION_LENGTH
        THEN [ok |-> FALSE, value |-> <<>>, error |-> "Task description is too long"]
        ELSE [ok |-> TRUE, value |-> normalized, error |-> ""]

\* Lines 130-135: normalise, refuse the empty and the too long.
validate_description(description) ==
    LET normalized == normalize(description)
    IN  IF normalized = <<>>
        THEN [ok |-> FALSE, value |-> <<>>, error |-> "Task description cannot be empty"]
        ELSE IF Len(normalized) > MAX_DESCRIPTION_LENGTH
        THEN [ok |-> FALSE, value |-> <<>>, error |-> "Task description is too long"]
        ELSE [ok |-> TRUE, value |-> normalized, error |-> ""]

\* ------------------------------------------------------------ persistence
\* The file is missing, of zero length, holds the JSON of a task list, or
\* holds text that is not JSON.
File(kind, tasks) == [kind |-> kind, tasks |-> tasks]

\* Mutant of load_tasks: text that is not JSON is read as no tasks.
load_tasks_lenient ==
    IF TASKS_FILE.kind = "json"
    THEN [ok |-> TRUE, tasks |-> TASKS_FILE.tasks]
    ELSE [ok |-> TRUE, tasks |-> <<>>]

\* Mutant of load_tasks: without the test of st_size, so that a file of zero
\* length goes to the JSON parser.
load_tasks_unsized ==
    IF TASKS_FILE.kind = "missing"
    THEN [ok |-> TRUE, tasks |-> <<>>]
    ELSE IF TASKS_FILE.kind = "json"
    THEN [ok |-> TRUE, tasks |-> TASKS_FILE.tasks]
    ELSE [ok |-> FALSE, tasks |-> <<>>]

\* Lines 12-14: no file or a file of zero length is no tasks; lines 16-21: the
\* parsed list, or the failure of the parser.
load_tasks ==
    IF TASKS_FILE.kind \in {"missing", "empty"}
    THEN [ok |-> TRUE, tasks |-> <<>>]
    ELSE IF TASKS_FILE.kind = "json"
    THEN [ok |-> TRUE, tasks |-> TASKS_FILE.tasks]
    ELSE [ok |-> FALSE, tasks |-> <<>>]

save_tasks(tasks) == File("json", tasks)

\* ------------------------------------------------------------------ clock
\* datetime.now(): a reading not before the last one.
Readings(last) == last..MaxClock

\* ----------------------------------------------------------------- output
\* click.echo(message): the message and a newline.  The numbers are formatted.
echo(message) == message \o <<"\n">>

Result(cmd, task_id, description, status, exit_code, stdout, stderr, saved) ==
    [cmd |-> cmd, task_id |-> task_id, description |-> description,
     status |-> status, exit_code |-> exit_code,
     stdout |-> stdout, stderr |-> stderr, saved |-> saved]

NoResult == Result("", 0, <<>>, "", 0, <<>>, <<>>, FALSE)

\* ------------------------------------------------- concurrent invocations
\* Two shells, with one command typed in each.
Procs == {"p1", "p2"}

\* An invocation between its steps: where it is (idle, loaded, opened, done),
\* its command line, the list as it loaded it, the list it holds in memory,
\* its exit code and whether it has saved.  overtaken and torn are history:
\* another invocation has saved since this one loaded; this one loaded a
\* file that another invocation had opened for writing and not yet written.
Proc(pc, cmd, task_id, description, status, loaded, tasks, exit_code, saved, overtaken, torn) ==
    [pc |-> pc, cmd |-> cmd, task_id |-> task_id, description |-> description,
     status |-> status, loaded |-> loaded, tasks |-> tasks,
     exit_code |-> exit_code, saved |-> saved,
     overtaken |-> overtaken, torn |-> torn]

Idle == Proc("idle", "", 0, <<>>, "", <<>>, <<>>, 0, FALSE, FALSE, FALSE)

\* A command is started only when the one before has ended and its output has
\* been read: every process starts with empty output streams.
AtPrompt == result = NoResult

\* click's handling of a BadParameter raised by the command: usage error, exit 2.
BadParameter(message) == echo(<<"Error: ", "Invalid value: ", message>>)

\* click's handling of a ClickException: exit 1.
ClickException(message) == echo(<<"Error: ", message>>)

CorruptedMessage == "Error: Tasks file is corrupted."

max_id(tasks) ==
    IF tasks = <<>> THEN 0
    ELSE CHOOSE m \in {tasks[i].id : i \in 1..Len(tasks)} :
            \A i \in 1..Len(tasks) : tasks[i].id <= m

\* ---------------------------------------------------------------- add
\* Mutant of next_id: the next id from the number of tasks, not their maximum.
next_id_by_count(tasks) == Len(tasks) + 1

\* Line 115: max([task['id'] for task in tasks], default=0) + 1
next_id(tasks) == max_id(tasks) + 1

\* Mutant of add_task: the new task is put first.
add_task_first(tasks, description, t1, t2) ==
    LET new_task == [id |-> next_id(tasks), description |-> description,
                     status |-> "todo", createdAt |-> t1, updatedAt |-> t2]
    IN  <<new_task>> \o tasks

\* Lines 115-124 of add_task: the next id, the new task (two readings of the
\* clock, createdAt first), the append.
add_task(tasks, description, t1, t2) ==
    LET new_task == [id |-> next_id(tasks), description |-> description,
                     status |-> "todo", createdAt |-> t1, updatedAt |-> t2]
    IN  Append(tasks, new_task)

add(description) ==
    /\ AtPrompt
    /\ LET v == validate_description(description)
           loaded == load_tasks
       IN  IF ~v.ok
           THEN /\ result' = Result("add", 0, description, "", 2,
                                    <<>>, BadParameter(v.error), FALSE)
                /\ UNCHANGED <<TASKS_FILE, clock, issued, procs>>
           ELSE IF ~loaded.ok
           THEN /\ result' = Result("add", 0, description, "", 1,
                                    <<>>, ClickException(CorruptedMessage), FALSE)
                /\ UNCHANGED <<TASKS_FILE, clock, issued, procs>>
           ELSE /\ next_id(loaded.tasks) <= MaxId
                /\ \E t1 \in Readings(clock) : \E t2 \in Readings(t1) :
                     LET tasks == add_task(loaded.tasks, v.value, t1, t2)
                         new_task == tasks[Len(tasks)]
                     IN  /\ TASKS_FILE' = save_tasks(tasks)
                         /\ clock' = t2
                         /\ issued' = issued \cup {new_task.id}
                         /\ UNCHANGED procs
                         /\ result' = Result("add", 0, description, "", 0,
                               echo(<<"Task added successfully (ID: ",
                                      ToString(new_task.id), ")">>),
                               <<>>, TRUE)

\* ------------------------------------------------- the scan for a task id
\* Mutant of find_task: after a loop without a match the loop variable, the
\* last task, is taken as found.
find_task_last(tasks, task_id) ==
    LET hits == {i \in 1..Len(tasks) : tasks[i].id = task_id}
    IN  IF hits = {} THEN Len(tasks)
        ELSE CHOOSE i \in hits : \A j \in hits : i <= j

\* "for task in tasks: if task['id'] == task_id": the first position that
\* matches, 0 when the loop ends without a match.
find_task(tasks, task_id) ==
    LET hits == {i \in 1..Len(tasks) : tasks[i].id = task_id}
    IN  IF hits = {} THEN 0
        ELSE CHOOSE i \in hits : \A j \in hits : i <= j

NotFound(task_id) == echo(<<"Task ", ToString(task_id), " not found">>)

\* ------------------------------------------------------------- update
\* Mutant of update_task: the description is normalised like add's.
update_task_normalized(tasks, i, description, now) ==
    [tasks EXCEPT ![i].description = validate_description(description).value,
                  ![i].updatedAt = now]

\* Lines 54-55: the assignments to the task found.
update_task(tasks, i, description, now) ==
    [tasks EXCEPT ![i].description = description, ![i].updatedAt = now]

update(task_id, description) ==
    /\ AtPrompt
    /\ LET loaded == load_tasks
           i == find_task(loaded.tasks, task_id)
       IN  IF ~loaded.ok
           THEN /\ result' = Result("update", task_id, description, "", 1,
                                    <<>>, ClickException(CorruptedMessage), FALSE)
                /\ UNCHANGED <<TASKS_FILE, clock, issued, procs>>
           ELSE IF i # 0
           THEN \E now \in Readings(clock) :
                  /\ TASKS_FILE' = save_tasks(update_task(loaded.tasks, i, description, now))
                  /\ clock' = now
                  /\ result' = Result("update", task_id, description, "", 0,
                        echo(<<"Task ", ToString(task_id), " updated successfully">>),
                        <<>>, TRUE)
                  /\ UNCHANGED <<issued, procs>>
           ELSE /\ result' = Result("update", task_id, description, "", 0,
                                    <<>>, NotFound(task_id), FALSE)
                /\ UNCHANGED <<TASKS_FILE, clock, issued, procs>>

\* ------------------------------------------------------------- delete
\* Mutant of delete_task: the id is taken as the position in the list.
delete_task_at(tasks, task_id) ==
    IF task_id <= Len(tasks)
    THEN SubSeq(tasks, 1, task_id - 1) \o SubSeq(tasks, task_id + 1, Len(tasks))
    ELSE tasks

\* Line 67: [task for task in tasks if task['id'] != task_id]
delete_task(tasks, task_id) ==
    LET keep(task) == task.id # task_id
    IN  SelectSeq(tasks, keep)

delete(task_id) ==
    /\ AtPrompt
    /\ LET loaded == load_tasks
       IN  IF ~loaded.ok
           THEN /\ result' = Result("delete", task_id, <<>>, "", 1,
                                    <<>>, ClickException(CorruptedMessage), FALSE)
                /\ UNCHANGED <<TASKS_FILE, clock, issued, procs>>
           ELSE /\ TASKS_FILE' = save_tasks(delete_task(loaded.tasks, task_id))
                /\ result' = Result("delete", task_id, <<>>, "", 0,
                      echo(<<"Task ", ToString(task_id), " deleted successfully">>),
                      <<>>, TRUE)
                /\ UNCHANGED <<clock, issued, procs>>

\* --------------------------------------------------------------- list
\* Lines 77-78: the filter.
filter_tasks(tasks, status) ==
    LET keep(task) == task.status = status
    IN  IF status # "all" THEN SelectSeq(tasks, keep) ELSE tasks

\* Line 85: f"[{task['id']}] {task['description']} ({task['status']})"
format_task(task) ==
    <<"[", ToString(task.id), "] ">> \o task.description
        \o <<" (", task.status, ")">>

RECURSIVE echo_tasks(_)
echo_tasks(tasks) ==
    IF tasks = <<>> THEN <<>>
    ELSE echo(format_task(Head(tasks))) \o echo_tasks(Tail(tasks))

\* Lines 80-85: what list prints for the filtered tasks.
list_output(tasks) ==
    IF tasks = <<>> THEN echo(<<"No tasks found">>) ELSE echo_tasks(tasks)

list(status) ==
    /\ AtPrompt
    /\ LET loaded == load_tasks
       IN  /\ IF ~loaded.ok
              THEN result' = Result("list", 0, <<>>, status, 1,
                                    <<>>, ClickException(CorruptedMessage), FALSE)
              ELSE result' = Result("list", 0, <<>>, status, 0,
                                    list_output(filter_tasks(loaded.tasks, status)),
                                    <<>>, FALSE)
           /\ UNCHANGED <<TASKS_FILE, clock, issued, procs>>

\* ------------------------------------------- mark-done, mark-in-progress
\* Mutant of set_status: createdAt is overwritten too.
set_status_created(tasks, i, status, now) ==
    [tasks EXCEPT ![i].status = status, ![i].updatedAt = now, ![i].createdAt = now]

\* Mutant of set_status: a task that is done keeps its status.
set_status_checked(tasks, i, status, now) ==
    [tasks EXCEPT ![i].status = IF @ = "done" THEN @ ELSE status,
                  ![i].updatedAt = now]

\* Mutant of set_status: the task that was marked is moved to the end.
set_status_moved(tasks, i, status, now) ==
    LET marked == [tasks[i] EXCEPT !.status = status, !.updatedAt = now]
    IN  SubSeq(tasks, 1, i - 1) \o SubSeq(tasks, i + 1, Len(tasks)) \o <<marked>>

\* Lines 104-105: the assignments to the task found.
set_status(tasks, i, status, now) ==
    [tasks EXCEPT ![i].status = status, ![i].updatedAt = now]

update_task_status(task_id, status) ==
    LET loaded == load_tasks
        i == find_task(loaded.tasks, task_id)
        cmd == "mark-" \o status
    IN  IF ~loaded.ok
        THEN /\ result' = Result(cmd, task_id, <<>>, status, 1,
                                 <<>>, ClickException(CorruptedMessage), FALSE)
             /\ UNCHANGED <<TASKS_FILE, clock, issued, procs>>
        ELSE IF i # 0
        THEN \E now \in Readings(clock) :
               /\ TASKS_FILE' = save_tasks(set_status(loaded.tasks, i, status, now))
               /\ clock' = now
               /\ result' = Result(cmd, task_id, <<>>, status, 0,
                     echo(<<"Task ", ToString(task_id), " marked as ", status>>),
                     <<>>, TRUE)
               /\ UNCHANGED <<issued, procs>>
        ELSE /\ result' = Result(cmd, task_id, <<>>, status, 0,
                                 <<>>, NotFound(task_id), FALSE)
             /\ UNCHANGED <<TASKS_FILE, clock, issued, procs>>

mark_done(task_id) ==
    /\ AtPrompt
    /\ update_task_status(task_id, "done")

mark_in_progress(task_id) ==
    /\ AtPrompt
    /\ update_task_status(task_id, "in-progress")

\* ------------------------------------------------------------------ model
\* The store before the first command: no file, a file of zero length, or "[]".
Init ==
    /\ TASKS_FILE \in {File("missing", <<>>), File("empty", <<>>), File("json", <<>>)}
    /\ clock = 0
    /\ result = NoResult
    /\ issued = {}
    /\ procs = [p \in Procs |-> Idle]

\* The process of a command has ended and its output has been read: the next
\* command starts with empty output streams.
prompt ==
    /\ ~AtPrompt
    /\ result' = NoResult
    /\ UNCHANGED <<TASKS_FILE, clock, issued, procs>>

\* One command at a time, each run to its end before the next is typed.
Next ==
    \/ \E d \in Descriptions : add(d)
    \/ \E id \in TaskIds, d \in Descriptions : update(id, d)
    \/ \E id \in TaskIds : delete(id)
    \/ \E s \in StatusChoices : list(s)
    \/ \E id \in TaskIds : mark_done(id)
    \/ \E id \in TaskIds : mark_in_progress(id)
    \/ prompt

Spec == Init /\ [][Next]_vars

\* The same commands on a store that may also have been left holding text
\* that is not JSON.
InitAnyStore ==
    /\ TASKS_FILE \in {File("missing", <<>>), File("empty", <<>>),
                       File("json", <<>>), File("corrupt", <<>>)}
    /\ clock = 0
    /\ result = NoResult
    /\ issued = {}
    /\ procs = [p \in Procs |-> Idle]

SpecAnyStore == InitAnyStore /\ [][Next]_vars

\* --------------------------------------------- add of every short string
MaxLen == 4       \* the descriptions typed are the strings of 0..MaxLen characters

Chars == {" ", "\n", "a"}

Strings == UNION { [1..n -> Chars] : n \in 0..MaxLen }

\* Each of the strings is given to add on a store without tasks; delete makes
\* the store empty again.
add_first(description) ==
    /\ load_tasks.tasks = <<>>
    /\ add(description)

NextStrings ==
    \/ \E d \in Strings : add_first(d)
    \/ \E id \in TaskIds : delete(id)
    \/ prompt

SpecStrings == Init /\ [][NextStrings]_vars

\* ------------------------------------------- add at the limit of the length
\* n times the character c.
Rep(c, n) == [i \in 1..n |-> c]

\* Descriptions around the greatest length: empty, whitespace only, exactly
\* at the limit and one over it, and descriptions that reach the limit, or
\* pass it, only once their whitespace has been normalised.
LimitDescriptions ==
    LET half == MAX_DESCRIPTION_LENGTH \div 2
    IN  { <<>>,
          <<" ", "\n">>,
          Rep("a", MAX_DESCRIPTION_LENGTH),
          Rep("a", MAX_DESCRIPTION_LENGTH + 1),
          <<" ">> \o Rep("a", MAX_DESCRIPTION_LENGTH) \o <<"\n">>,
          Rep("a", half) \o <<" ", " ">> \o Rep("a", MAX_DESCRIPTION_LENGTH - half - 1),
          Rep("a", half) \o <<"\n">> \o Rep("a", MAX_DESCRIPTION_LENGTH - half) }

NextLimit ==
    \/ \E d \in LimitDescriptions : add(d)
    \/ \E id \in TaskIds : delete(id)
    \/ prompt

SpecLimit == Init /\ [][NextLimit]_vars

\* ------------------------------------ invocations that run at the same time
\* Each invocation is a process of its own: it loads the file, changes the
\* list it holds in memory, saves it and ends.  Nothing keeps another
\* invocation from taking its steps in between.  Two invocations are
\* followed, one in each shell, from the store they find to their ends.
ConcDescriptions == {<<"a">>, <<"b">>}

\* The file this invocation reads has been opened for writing by another
\* one that has not written yet.
Torn(p) ==
    /\ TASKS_FILE.kind = "empty"
    /\ \E q \in Procs \ {p} : procs[q].pc = "opened"

\* The invocation has loaded and changed its list and is about to save it.
Loaded(p, cmd, task_id, description, status, loaded, tasks) ==
    Proc("loaded", cmd, task_id, description, status, loaded, tasks,
         0, FALSE, FALSE, Torn(p))

\* The invocation has ended without saving.
Ended(p, cmd, task_id, description, status, loaded, exit_code) ==
    Proc("done", cmd, task_id, description, status, loaded, loaded,
         exit_code, FALSE, FALSE, Torn(p))

\* add up to its call of save_tasks (lines 39-40, 113-124).
add_load(p, description) ==
    /\ procs[p].pc = "idle"
    /\ LET v == validate_description(description)
           loaded == load_tasks
       IN  IF ~v.ok
           THEN /\ procs' = [procs EXCEPT ![p] =
                                Ended(p, "add", 0, description, "", <<>>, 2)]
                /\ UNCHANGED clock
           ELSE IF ~loaded.ok
           THEN /\ procs' = [procs EXCEPT ![p] =
                                Ended(p, "add", 0, description, "", <<>>, 1)]
                /\ UNCHANGED clock
           ELSE /\ next_id(loaded.tasks) <= MaxId
                /\ \E t1 \in Readings(clock) : \E t2 \in Readings(t1) :
                     /\ procs' = [procs EXCEPT ![p] =
                            Loaded(p, "add", 0, description, "", loaded.tasks,
                                   add_task(loaded.tasks, v.value, t1, t2))]
                     /\ clock' = t2
    /\ UNCHANGED <<TASKS_FILE, result, issued>>

\* update up to its call of save_tasks (lines 50-56), or to its end when no
\* task has the id (line 60).
update_load(p, task_id, description) ==
    /\ procs[p].pc = "idle"
    /\ LET loaded == load_tasks
           i == find_task(loaded.tasks, task_id)
       IN  IF ~loaded.ok
           THEN /\ procs' = [procs EXCEPT ![p] =
                                Ended(p, "update", task_id, description, "", <<>>, 1)]
                /\ UNCHANGED clock
           ELSE IF i # 0
           THEN \E now \in Readings(clock) :
                  /\ procs' = [procs EXCEPT ![p] =
                         Loaded(p, "update", task_id, description, "", loaded.tasks,
                                update_task(loaded.tasks, i, description, now))]
                  /\ clock' = now
           ELSE /\ procs' = [procs EXCEPT ![p] =
                                Ended(p, "update", task_id, description, "",
                                      loaded.tasks, 0)]
                /\ UNCHANGED clock
    /\ UNCHANGED <<TASKS_FILE, result, issued>>

\* delete up to its call of save_tasks (lines 66-67).
delete_load(p, task_id) ==
    /\ procs[p].pc = "idle"
    /\ LET loaded == load_tasks
       IN  IF ~loaded.ok
           THEN procs' = [procs EXCEPT ![p] =
                            Ended(p, "delete", task_id, <<>>, "", <<>>, 1)]
           ELSE procs' = [procs EXCEPT ![p] =
                            Loaded(p, "delete", task_id, <<>>, "", loaded.tasks,
                                   delete_task(loaded.tasks, task_id))]
    /\ UNCHANGED <<TASKS_FILE, clock, result, issued>>

\* mark-done and mark-in-progress up to the call of save_tasks (lines
\* 101-106), or to the end when no task has the id (line 110).
mark_load(p, task_id, status) ==
    /\ procs[p].pc = "idle"
    /\ LET loaded == load_tasks
           i == find_task(loaded.tasks, task_id)
           cmd == "mark-" \o status
       IN  IF ~loaded.ok
           THEN /\ procs' = [procs EXCEPT ![p] =
                                Ended(p, cmd, task_id, <<>>, status, <<>>, 1)]
                /\ UNCHANGED clock
           ELSE IF i # 0
           THEN \E now \in Readings(clock) :
                  /\ procs' = [procs EXCEPT ![p] =
                         Loaded(p, cmd, task_id, <<>>, status, loaded.tasks,
                                set_status(loaded.tasks, i, status, now))]
                  /\ clock' = now
           ELSE /\ procs' = [procs EXCEPT ![p] =
                                Ended(p, cmd, task_id, <<>>, status, loaded.tasks, 0)]
                /\ UNCHANGED clock
    /\ UNCHANGED <<TASKS_FILE, result, issued>>

\* Mutant of written: an invocation that has been overtaken writes back what
\* the file holds instead of its own list.
written_checked(p) ==
    IF procs[p].overtaken THEN load_tasks.tasks ELSE procs[p].tasks

\* Mutant of written: the tasks of the file that the invocation has not
\* loaded are put after its own.
written_merged(p) ==
    LET unseen(task) == \A i \in 1..Len(procs[p].loaded) :
                            procs[p].loaded[i] # task
    IN  procs[p].tasks \o SelectSeq(load_tasks.tasks, unseen)

\* json.dump(tasks, f): what is written is the list the invocation holds.
written(p) == procs[p].tasks

\* The invocation of p has saved and every invocation that had loaded before
\* has been overtaken.
AfterSave(p) ==
    [q \in Procs |->
        IF q = p THEN [procs[p] EXCEPT !.pc = "done", !.saved = TRUE]
        ELSE IF procs[q].pc \in {"loaded", "opened"}
        THEN [procs[q] EXCEPT !.overtaken = TRUE]
        ELSE procs[q]]

\* save_tasks as one step: the file holds the whole list at once.
save(p) ==
    /\ procs[p].pc = "loaded"
    /\ TASKS_FILE' = save_tasks(written(p))
    /\ procs' = AfterSave(p)
    /\ UNCHANGED <<clock, result, issued>>

\* save_tasks in its two steps.  Line 29: open('w') creates the file or cuts
\* it to zero length.
open_w(p) ==
    /\ procs[p].pc = "loaded"
    /\ TASKS_FILE' = File("empty", <<>>)
    /\ procs' = [procs EXCEPT ![p].pc = "opened"]
    /\ UNCHANGED <<clock, result, issued>>

\* Line 30 and the end of the with block: the text is written from the start
\* of the file.  When another invocation has written since this one opened
\* the file, the text goes over the other's: the file holds this text, and
\* after it what is left of a longer one, which no longer parses.
write(p) ==
    /\ procs[p].pc = "opened"
    /\ \/ TASKS_FILE' = save_tasks(written(p))
       \/ /\ TASKS_FILE.kind # "empty"
          /\ TASKS_FILE' = File("corrupt", <<>>)
    /\ procs' = AfterSave(p)
    /\ UNCHANGED <<clock, result, issued>>

\* The stores the invocations find: no file, no tasks, one task, two tasks of
\* which the second has been marked; each as add and mark-in-progress leave it.
InitialStores ==
    LET one == add_task(<<>>, <<"a">>, 0, 0)
        two == set_status(add_task(one, <<"b">>, 0, 0), 2, "in-progress", 0)
    IN  {<<>>, one, two}

\* Two invocations are started, one in each shell, and none has loaded yet.
InitConc ==
    /\ TASKS_FILE \in {File("missing", <<>>)}
                        \cup {File("json", tasks) : tasks \in InitialStores}
    /\ clock = 0
    /\ result = NoResult
    /\ issued = {}
    /\ procs = [p \in Procs |-> Idle]

NextConc ==
    \/ \E p \in Procs, d \in ConcDescriptions : add_load(p, d)
    \/ \E p \in Procs, id \in TaskIds, d \in ConcDescriptions : update_load(p, id, d)
    \/ \E p \in Procs, id \in TaskIds : delete_load(p, id)
    \/ \E p \in Procs, id \in TaskIds, status \in {"done", "in-progress"} :
          mark_load(p, id, status)
    \/ \E p \in Procs : save(p)

SpecConc == InitConc /\ [][NextConc]_vars

NextTorn ==
    \/ \E p \in Procs, d \in ConcDescriptions : add_load(p, d)
    \/ \E p \in Procs, id \in TaskIds, d \in ConcDescriptions : update_load(p, id, d)
    \/ \E p \in Procs, id \in TaskIds : delete_load(p, id)
    \/ \E p \in Procs, id \in TaskIds, status \in {"done", "in-progress"} :
          mark_load(p, id, status)
    \/ \E p \in Procs : open_w(p)
    \/ \E p \in Procs : write(p)

SpecTorn == InitConc /\ [][NextTorn]_vars

\* The tasks in the store, as a command would load them.
Tasks == load_tasks.tasks

\* ------------------------------------------------------ used by the claims
Ids(tasks) == {tasks[i].id : i \in 1..Len(tasks)}

HasId(tasks, task_id) == \E i \in 1..Len(tasks) : tasks[i].id = task_id

SetMax(S) == IF S = {} THEN 0 ELSE CHOOSE m \in S : \A x \in S : x <= m

\* Whitespace normalisation stated as one scan from the left: every run of
\* whitespace between two words becomes one space, the runs at the ends go.
RECURSIVE Squeeze(_, _, _)
Squeeze(s, out, gap) ==
    IF s = <<>> THEN out
    ELSE IF Head(s) \in Whitespace THEN Squeeze(Tail(s), out, TRUE)
    ELSE Squeeze(Tail(s),
                 (IF gap /\ out # <<>> THEN Append(out, " ") ELSE out) \o <<Head(s)>>,
                 FALSE)

Normalized(s) == Squeeze(s, <<>>, FALSE)

\* The step just taken ran this command (every command records itself).
Ran(cmd) == result'.cmd = cmd

\* ------------------------------------------------------------------- C1
\* C1: from an empty or missing store, after any sequence of add, update,
\* delete, mark-done and mark-in-progress commands run one after the other,
\* no two tasks of the persisted collection have the same id.
C1_UniqueIds ==
    \A i, j \in 1..Len(Tasks) : i # j => Tasks[i].id # Tasks[j].id

\* An add has just stored a second task beside an earlier one.
C1_Witness ==
    /\ result.cmd = "add" /\ result.exit_code = 0
    /\ Len(Tasks) = 2
    /\ issued = {1, 2}

\* ------------------------------------------------------------------- C2
\* C2: the id given to a newly added task is one more than the greatest id
\* that was ever in the collection, also when the task that held it has been
\* deleted; so no add reports an id that an earlier add has reported.
C2_NeverReused ==
    [][ (Ran("add") /\ result'.exit_code = 0) =>
          LET new_task == Tasks'[Len(Tasks')]
          IN  /\ new_task.id = SetMax(issued) + 1
              /\ new_task.id \notin issued ]_vars

\* ------------------------------------------------------------------- C3
\* C3: a successful add on a collection T gives T followed by exactly one new
\* task, whose id is the greatest id in T (0 when T is empty) plus one, whose
\* status is todo and whose description is the normalised input; the tasks
\* of T are unchanged and keep their places, and the id reported is the id
\* stored.
C3_AddAppends ==
    [][ (Ran("add") /\ result'.exit_code = 0) =>
          LET T == Tasks
              new_task == Tasks'[Len(Tasks')]
          IN  /\ Len(Tasks') = Len(T) + 1
              /\ SubSeq(Tasks', 1, Len(T)) = T
              /\ new_task.id = SetMax(Ids(T)) + 1
              /\ new_task.status = "todo"
              /\ new_task.description = Normalized(result'.description)
              /\ result'.stdout = <<"Task added successfully (ID: ",
                                    ToString(new_task.id), ")", "\n">>
              /\ result'.saved /\ TASKS_FILE'.kind = "json" ]_vars

\* An add has put a second task after an earlier one, and normalisation
\* changed what was typed.
C3_Witness ==
    /\ result.cmd = "add" /\ result.exit_code = 0
    /\ Len(Tasks) = 2
    /\ Tasks[2].description # result.description
    /\ Tasks[2].description = <<"a", " ", "a">>
    /\ Tasks[1].status = "done"

\* ------------------------------------------------------------------- C4
\* C4: in every reachable state of the store every task's description is
\* non-empty, has no leading or trailing whitespace, has no run of more than
\* one whitespace character, and is at most 500 characters long.
C4_DescriptionsNormal ==
    \A i \in 1..Len(Tasks) :
        LET d == Tasks[i].description
        IN  /\ d # <<>>
            /\ d[1] \notin Whitespace
            /\ d[Len(d)] \notin Whitespace
            /\ \A k \in 1..(Len(d) - 1) :
                   ~(d[k] \in Whitespace /\ d[k + 1] \in Whitespace)
            /\ Len(d) <= MAX_DESCRIPTION_LENGTH

\* ------------------------------------------------------------------- C5
\* C5: update(id, newDescription) on a collection that holds a task with that
\* id sets that task's description to newDescription as given and its
\* updatedAt to the time of the update, and changes nothing else: its id,
\* status, createdAt and place, and every other task, stay as they were.
C5_UpdateFrame ==
    [][ (Ran("update") /\ HasId(Tasks, result'.task_id)) =>
          /\ result'.exit_code = 0
          /\ Len(Tasks') = Len(Tasks)
          /\ \A i \in 1..Len(Tasks) :
                IF Tasks[i].id = result'.task_id
                THEN /\ Tasks'[i].description = result'.description
                     /\ Tasks'[i].updatedAt = clock'
                     /\ Tasks'[i].updatedAt >= Tasks[i].updatedAt
                     /\ Tasks'[i].id = Tasks[i].id
                     /\ Tasks'[i].status = Tasks[i].status
                     /\ Tasks'[i].createdAt = Tasks[i].createdAt
                ELSE Tasks'[i] = Tasks[i] ]_vars

\* An update has stored a description that add would have changed, on the
\* second of two tasks, later than the task was made and after its status
\* had changed.
C5_Witness ==
    /\ result.cmd = "update" /\ result.exit_code = 0 /\ result.saved
    /\ Len(Tasks) = 2
    /\ result.task_id = Tasks[2].id
    /\ Tasks[2].description = result.description
    /\ Normalized(result.description) # result.description
    /\ Tasks[2].updatedAt > Tasks[2].createdAt
    /\ Tasks[2].status = "in-progress"

\* ------------------------------------------------------------------- C6
\* C6: mark-done(id) and mark-in-progress(id) on a collection that holds a
\* task with that id end with exit code 0 whatever the task's status is, the
\* target status included; afterwards the task has the target status and an
\* updatedAt not before its earlier one, its id, description and createdAt
\* and every other task being unchanged.
C6_MarkFrame ==
    [][ \A target \in {"done", "in-progress"} :
          (Ran("mark-" \o target) /\ HasId(Tasks, result'.task_id)) =>
            /\ result'.exit_code = 0
            /\ Len(Tasks') = Len(Tasks)
            /\ \A i \in 1..Len(Tasks) :
                  IF Tasks[i].id = result'.task_id
                  THEN /\ Tasks'[i].status = target
                       /\ Tasks'[i].updatedAt >= Tasks[i].updatedAt
                       /\ Tasks'[i].id = Tasks[i].id
                       /\ Tasks'[i].description = Tasks[i].description
                       /\ Tasks'[i].createdAt = Tasks[i].createdAt
                  ELSE Tasks'[i] = Tasks[i] ]_vars

\* mark-in-progress has acted on the first of two tasks, later than the task
\* was made, while the other task is done.
C6_Witness ==
    /\ result.cmd = "mark-in-progress" /\ result.exit_code = 0 /\ result.saved
    /\ Len(Tasks) = 2
    /\ result.task_id = Tasks[1].id
    /\ Tasks[1].status = "in-progress"
    /\ Tasks[1].updatedAt > Tasks[1].createdAt
    /\ Tasks[2].status = "done"

\* ------------------------------------------------------------------- C7
\* Some command, typed now, brings the task at place i, as the same task, to
\* status t.
CanBring(i, t) ==
    ENABLED ( /\ Next
              /\ Len(Tasks') >= i
              /\ Tasks'[i].id = Tasks[i].id
              /\ Tasks'[i].status = t )

\* C7: status transitions are unrestricted: for every two statuses s and t of
\* todo, in-progress and done, a task whose status is s can be brought to t
\* by the program's commands; todo too is reached from every other status.
C7_AllTransitions ==
    AtPrompt =>
        \A i \in 1..Len(Tasks) :
            \A t \in Statuses \ {Tasks[i].status} : CanBring(i, t)

\* mark-done or mark-in-progress, given the id of the task at place i, brings
\* it to status t.
CanMark(i, t) ==
    ENABLED ( /\ mark_done(Tasks[i].id) \/ mark_in_progress(Tasks[i].id)
              /\ Len(Tasks') >= i
              /\ Tasks'[i].id = Tasks[i].id
              /\ Tasks'[i].status = t )

\* No command gives the status todo to a stored task that does not have it.
NoReturnToTodo ==
    \A i \in 1..Len(Tasks) : \A j \in 1..Len(Tasks') :
        (Tasks'[j].id = Tasks[i].id /\ Tasks[i].status # "todo")
            => Tasks'[j].status # "todo"

\* C7 as amended: a task of any status can be brought to in-progress and to
\* done, each by one command; todo is the status a task is added with, and no
\* command brings a stored task back to it.
C7_MarkTransitions ==
    /\ [](AtPrompt =>
            \A i \in 1..Len(Tasks) :
                \A t \in {"in-progress", "done"} \ {Tasks[i].status} : CanMark(i, t))
    /\ [][NoReturnToTodo]_vars

\* mark-done has acted on a task while another one is in progress and was
\* touched after it was made: tasks have left todo both ways.
C7_Witness ==
    /\ result.cmd = "mark-done" /\ result.exit_code = 0 /\ result.saved
    /\ Len(Tasks) = 2
    /\ Tasks[1].status = "done" /\ result.task_id = Tasks[1].id
    /\ Tasks[2].status = "in-progress"

\* ------------------------------------------------------------------- C8
\* C8: update, mark-done and mark-in-progress given an id that no task of the
\* collection has leave the persisted store as it is (save_tasks is not
\* called), report "Task N not found" and end with exit code 0.
C8_NotFound ==
    [][ \A cmd \in {"update", "mark-done", "mark-in-progress"} :
          (Ran(cmd) /\ ~HasId(Tasks, result'.task_id)) =>
            /\ TASKS_FILE' = TASKS_FILE
            /\ ~result'.saved
            /\ result'.exit_code = 0
            /\ result'.stdout = <<>>
            /\ result'.stderr =
                 <<"Task ", ToString(result'.task_id), " not found", "\n">> ]_vars

\* mark-done was given the id of a task deleted before, while another task
\* is stored.
C8_Witness ==
    /\ result.cmd = "mark-done" /\ result.exit_code = 0
    /\ result.stderr = <<"Task ", "1", " not found", "\n">>
    /\ Len(Tasks) = 1 /\ Tasks[1].id = 2 /\ Tasks[1].status = "todo"
    /\ 1 \in issued

\* ------------------------------------------------------------------- C9
\* The places of tasks that satisfy keep, and the place each has among them.
Kept(tasks, keep(_)) == {i \in 1..Len(tasks) : keep(tasks[i])}

Rank(S, i) == Cardinality({j \in S : j <= i})

RECURSIVE SplitLines(_, _, _)
SplitLines(out, cur, acc) ==
    IF out = <<>> THEN (IF cur = <<>> THEN acc ELSE Append(acc, cur))
    ELSE IF Head(out) = "\n" THEN SplitLines(Tail(out), <<>>, Append(acc, cur))
    ELSE SplitLines(Tail(out), Append(cur, Head(out)), acc)

\* C10: list(S) for S of todo, in-progress and done prints exactly the tasks
\* of the collection whose status is S, one line each, in the order of the
\* collection; list(all) prints every task in that order; "No tasks found"
\* is printed exactly when the filtered result is empty; list never changes
\* the persisted store and ends with exit code 0.
C10_ListOutput ==
    [][ Ran("list") =>
          LET T == Tasks
              S == result'.status
              wanted(task) == S = "all" \/ task.status = S
              shown == Kept(T, wanted)
              lines == SplitLines(result'.stdout, <<>>, <<>>)
          IN  /\ result'.exit_code = 0
              /\ TASKS_FILE' = TASKS_FILE /\ ~result'.saved
              /\ (\E k \in 1..Len(lines) : lines[k] = <<"No tasks found">>)
                    <=> shown = {}
              /\ shown # {} =>
                    /\ Len(lines) = Cardinality(shown)
                    /\ \A i \in shown :
                          lines[Rank(shown, i)] =
                              <<"[", ToString(T[i].id), "] ">>
                                  \o T[i].description
                                  \o <<" (", T[i].status, ")">> ]_vars

\* ------------------------------------------------------------------ C11
\* C11: when the store file is not empty and cannot be parsed, every command
\* (add, update, delete, list, mark-done, mark-in-progress) ends with an exit
\* code that is not 0 and writes nothing: the file is afterwards what it was.
C11_CorruptFailsWithoutWrite ==
    [][ (TASKS_FILE.kind = "corrupt" /\ ~Ran("")) =>
          /\ result'.exit_code # 0
          /\ ~result'.saved
          /\ TASKS_FILE' = TASKS_FILE ]_vars

\* delete, which otherwise always writes, has failed on an unparseable file.
C11_Witness ==
    /\ TASKS_FILE.kind = "corrupt"
    /\ result.cmd = "delete" /\ result.exit_code = 1
    /\ result.stderr = <<"Error: ", CorruptedMessage, "\n">>

\* ------------------------------------------------------------------ C12
\* C12: with no store file and with a store file of zero length every command
\* does what it does on an empty collection and none fails: list, whatever
\* the filter, prints "No tasks found" and ends with exit code 0; add of a
\* valid description creates the task with id 1; update, mark-done and
\* mark-in-progress report that the task is not found.
C12_AbsentIsEmpty ==
    [][ TASKS_FILE.kind \in {"missing", "empty"} =>
          /\ Ran("list") =>
                /\ result'.stdout = <<"No tasks found", "\n">>
                /\ result'.exit_code = 0
          /\ ( /\ Ran("add")
                /\ Normalized(result'.description) # <<>>
                /\ Len(Normalized(result'.description)) <= MAX_DESCRIPTION_LENGTH ) =>
                /\ result'.exit_code = 0
                /\ Len(Tasks') = 1 /\ Tasks'[1].id = 1
                /\ result'.stdout = <<"Task added successfully (ID: ", "1", ")", "\n">>
          /\ \A cmd \in {"update", "mark-done", "mark-in-progress"} :
                Ran(cmd) =>
                  /\ result'.stderr =
                       <<"Task ", ToString(result'.task_id), " not found", "\n">>
                  /\ result'.exit_code = 0
                  /\ TASKS_FILE' = TASKS_FILE
          /\ Ran("delete") => result'.exit_code = 0 /\ Tasks' = <<>> ]_vars

\* list with a filter has answered on a file of zero length.
C12_Witness ==
    /\ TASKS_FILE.kind = "empty"
    /\ result.cmd = "list" /\ result.status = "done"
    /\ result.exit_code = 0
    /\ result.stdout = <<"No tasks found", "\n">>

\* ------------------------------------------------------------------ C13
\* The length a description has once normalised, counted without normalising
\* it: its characters that are not whitespace, and one space between each
\* word and the next.
Letters(s) == {i \in 1..Len(s) : s[i] \notin Whitespace}

WordStarts(s) == {i \in Letters(s) : i = 1 \/ s[i - 1] \in Whitespace}

NormalizedLen(s) ==
    Cardinality(Letters(s))
        + (IF WordStarts(s) = {} THEN 0 ELSE Cardinality(WordStarts(s)) - 1)

\* C13: add with a description that is empty once normalised, or whose
\* normalised length is more than 500, ends with an exit code that is not 0
\* and changes nothing (the store is as it was and no id is used up); a
\* description of normalised length exactly 500 is accepted, one of 501 is
\* refused.
C13_AddAtLimit ==
    [][ Ran("add") =>
          LET n == NormalizedLen(result'.description)
          IN  /\ (n = 0 \/ n > 500) =>
                    /\ result'.exit_code # 0
                    /\ ~result'.saved
                    /\ TASKS_FILE' = TASKS_FILE
                    /\ issued' = issued
                    /\ next_id(Tasks') = next_id(Tasks)
              /\ (n >= 1 /\ n <= 500) =>
                    /\ result'.exit_code = 0
                    /\ Len(Tasks') = Len(Tasks) + 1
                    /\ Len(Tasks'[Len(Tasks')].description) = n ]_vars

\* A description of normalised length 501 has been refused while the store
\* holds a task whose description, accepted before, has length 500; the id
\* the next add would give is still 2.
C13_Witness ==
    /\ result.cmd = "add" /\ result.exit_code = 2
    /\ NormalizedLen(result.description) = 501
    /\ Len(result.description) = 501
    /\ Len(Tasks) = 1 /\ Len(Tasks[1].description) = 500
    /\ next_id(Tasks) = 2 /\ issued = {1}

\* ------------------------------------------------------------------ C14
\* The invocation of p takes its save step.
Saves(p) == procs[p].pc \in {"loaded", "opened"} /\ procs'[p].pc = "done"

\* The list T2 is the list T with the change that the command line of pr
\* asks for and with no other change.
OnlyMutation(T, pr, T2) ==
    IF pr.cmd = "add"
    THEN /\ Len(T2) = Len(T) + 1
         /\ SubSeq(T2, 1, Len(T)) = T
         /\ T2[Len(T2)].id = SetMax(Ids(T)) + 1
         /\ T2[Len(T2)].description = Normalized(pr.description)
         /\ T2[Len(T2)].status = "todo"
    ELSE IF pr.cmd = "delete"
    THEN LET other(task) == task.id # pr.task_id
         IN  T2 = SelectSeq(T, other)
    ELSE /\ Len(T2) = Len(T)
         /\ \A i \in 1..Len(T) :
               IF T[i].id # pr.task_id THEN T2[i] = T[i]
               ELSE /\ T2[i].id = T[i].id
                    /\ T2[i].createdAt = T[i].createdAt
                    /\ IF pr.cmd = "update"
                       THEN /\ T2[i].description = pr.description
                            /\ T2[i].status = T[i].status
                       ELSE /\ T2[i].description = T[i].description
                            /\ T2[i].status = pr.status

\* C14: with load and save as separate steps of each invocation and nothing
\* that locks the file, two mutating invocations that run at the same time
\* can lose an update: whenever both have loaded before either saves, the
\* store after both saves holds only the second writer's mutation, and the
\* mutation that the first writer has reported as a success is not in it.
C14_LostUpdate ==
    [][ \A p, q \in Procs :
          (Saves(q) /\ procs[q].overtaken /\ p # q) =>
            /\ procs[p].saved /\ procs[p].exit_code = 0
            /\ procs[p].loaded = procs[q].loaded
            /\ TASKS_FILE.tasks = procs[p].tasks
            /\ OnlyMutation(procs[p].loaded, procs[p], TASKS_FILE.tasks)
            /\ OnlyMutation(procs[q].loaded, procs[q], Tasks')
            /\ procs'[q].saved /\ procs'[q].exit_code = 0 ]_vars

\* mark-done 1 and update 1 have both loaded the task as todo; mark-done has
\* saved and reported success, update has saved after it: the task is todo.
C14_Witness ==
    /\ procs["p1"].cmd = "mark-done" /\ procs["p1"].task_id = 1
    /\ procs["p1"].pc = "done" /\ procs["p1"].saved /\ procs["p1"].exit_code = 0
    /\ procs["p1"].tasks[1].status = "done"
    /\ procs["p2"].cmd = "update" /\ procs["p2"].task_id = 1
    /\ procs["p2"].pc = "done" /\ procs["p2"].saved /\ procs["p2"].overtaken
    /\ Len(Tasks) = 2
    /\ Tasks[1].status = "todo"
    /\ Tasks[1].description = <<"b">>

\* ------------------------------------------------------------------ C15
\* C15: a task created by add has createdAt equal to updatedAt at the moment
\* it is created, both being the one timestamp of the add, for every add in
\* every history.
C15_OneTimestamp ==
    [][ (Ran("add") /\ result'.exit_code = 0) =>
          LET new_task == Tasks'[Len(Tasks')]
          IN  new_task.createdAt = new_task.updatedAt ]_vars

\* ------------------------------------------------------------------ C16
\* C16: normalising a description is idempotent: for every string s over an
\* alphabet of whitespace and other characters, normalising the normalised s
\* gives the normalised s again, where normalising makes each run of
\* whitespace one space and removes the runs at both ends.
C16_NormalizeIdempotent ==
    [][ Ran("add") =>
          LET s == result'.description
          IN  /\ normalize(normalize(s)) = normalize(s)
              /\ normalize(s) = Normalized(s)
              /\ result'.exit_code = 0 =>
                    Tasks'[Len(Tasks')].description = normalize(s) ]_vars

\* add has normalised a description with a run of whitespace of both kinds
\* inside.
C16_Witness ==
    /\ result.cmd = "add" /\ result.exit_code = 0
    /\ result.description = <<"a", " ", "\n", "a">>
    /\ Len(Tasks) = 1
    /\ Tasks[1].description = <<"a", " ", "a">>
    /\ Tasks[1].updatedAt = 1

\* ------------------------------------------------------------------ C17
\* C17: from an empty store, with the commands run one after the other, the
\* ids of the persisted collection are always strictly increasing along its
\* order (the order of insertion is the order of the ids): add appends the
\* greatest id plus one, and delete, update and the mark commands keep the
\* remaining tasks in their relative order.
C17_IdsIncrease ==
    \A i, j \in 1..Len(Tasks) : i < j => Tasks[i].id < Tasks[j].id

\* The first of two tasks has been marked after the second was added and
\* updated, and it is still the first.
C17_Witness ==
    /\ result.cmd = "mark-in-progress" /\ result.exit_code = 0 /\ result.saved
    /\ Len(Tasks) = 2
    /\ result.task_id = 1
    /\ Tasks[1].id = 1 /\ Tasks[2].id = 2
    /\ Tasks[1].status = "in-progress"
    /\ Tasks[2].description = <<" ", "\n">>

\* ------------------------------------------------------------------ C18
\* The id that the add of p has reported, 0 when p has not added.
Reported(p) ==
    IF procs[p].cmd = "add" /\ procs[p].saved
    THEN procs[p].tasks[Len(procs[p].tasks)].id
    ELSE 0

\* C18: under every interleaving of the load and save steps of invocations
\* that run at the same time, each save writing the whole file at once, the
\* ids of the tasks in the persisted store are pairwise distinct in every
\* reachable state, although updates can be lost; yet two adds that run at
\* the same time can both report the same id to their callers.
C18_StoredIdsDistinct ==
    /\ Cardinality(Ids(Tasks)) = Len(Tasks)
    /\ \A p \in Procs :
          procs[p].saved => Cardinality(Ids(procs[p].tasks)) = Len(procs[p].tasks)

\* Two adds have both ended with success and have reported the same id; the
\* store holds that id once, on the task of the one that saved last.
C18_Witness ==
    /\ \A p \in Procs : procs[p].pc = "done" /\ procs[p].exit_code = 0
    /\ Reported("p1") = 2 /\ Reported("p2") = 2
    /\ procs["p1"].description # procs["p2"].description
    /\ Len(Tasks) = 2
    /\ Tasks[2].id = 2 /\ Tasks[2].description = procs["p1"].description
    /\ procs["p1"].overtaken

\* ------------------------------------------------------------------ C19
\* The invocation of p takes its load step.
Loads(p) == procs[p].pc = "idle" /\ procs'[p].pc # "idle"

\* C19: save is not atomic: the file is cut to zero length when it is opened
\* for writing and the content is written afterwards; so an invocation whose
\* load runs between another one's truncation and write finds a file of zero
\* length, takes it without error for an empty collection, and a save by
\* that invocation afterwards (an add gives id 1) discards every task that
\* was stored before.
C19_TornSave ==
    [][ \A q \in Procs :
          /\ (Loads(q) /\ Torn(q)) =>
                /\ procs'[q].torn
                /\ procs'[q].exit_code = 0
                /\ procs'[q].loaded = <<>>
                /\ procs'[q].cmd = "add" =>
                      /\ procs'[q].pc = "loaded"
                      /\ Len(procs'[q].tasks) = 1
                      /\ procs'[q].tasks[1].id = 1
          /\ (Saves(q) /\ procs[q].torn /\ TASKS_FILE'.kind = "json") =>
                /\ Tasks' = procs[q].tasks
                /\ OnlyMutation(<<>>, procs[q], Tasks')
                /\ Len(Tasks') <= 1 ]_vars

\* The store held two tasks.  mark-done opened the file for writing; add
\* loaded the file of zero length; mark-done wrote; add saved: the store
\* holds the one new task, with id 1.
C19_Witness ==
    /\ procs["p1"].cmd = "mark-done" /\ procs["p1"].pc = "done"
    /\ procs["p1"].saved /\ Len(procs["p1"].loaded) = 2
    /\ procs["p2"].cmd = "add" /\ procs["p2"].pc = "done"
    /\ procs["p2"].saved /\ procs["p2"].torn /\ procs["p2"].exit_code = 0
    /\ procs["p2"].loaded = <<>>
    /\ procs["p2"].overtaken
    /\ TASKS_FILE.kind = "json"
    /\ Len(Tasks) = 1 /\ Tasks[1].id = 1 /\ Tasks[1].status = "todo"

====
